---- MODULE Spec2Model ----
(***************************************************************************)
(* Model of src/main.py: a randomized generator of nested SVG motifs.      *)
(*                                                                         *)
(* main() parses the configuration, builds the component registry (with   *)
(* the construction-time random choices of Polygon and PolygonGroup),      *)
(* then draws every requested component at the canvas center.  A draw may  *)
(* call draw_component, which re-parses the configuration, rebuilds the    *)
(* whole registry and draws the looked-up component: the Python call       *)
(* stack is the variable "stack", one frame per running draw method.       *)
(*                                                                         *)
(* Numbers.  Coordinates are Python floats that _rotate rounds to 7        *)
(* decimals; they are modelled as integers counting units of 10^-7         *)
(* (Scale).  cos and sin of the polygon angle are tabulated to 7 decimals  *)
(* and the products are computed exactly (in two limbs, TLC integers are   *)
(* 32 bits wide) before the rounding of round(x, 7) is applied.            *)
(* random.choice is a nondeterministic choice among the list's elements.   *)
(***************************************************************************)
EXTENDS Integers, Sequences, FiniteSets, TLC

VARIABLES
    params,      \* the parsed parameters.yaml (constant during a run)
    pc,          \* position of main(): "start", "loop", "done", "error"
    components,  \* main's registry: component id -> component instance
    canvas,      \* (canvas_width, canvas_height) as parsed by main
    k,           \* index into params.component_to_draw of the next id
    stack,       \* the call stack of draw methods, innermost frame last
    dwg,         \* elements added to the drawing by dwg.add, in order
    created,     \* every primitive made by a dwg.* factory call, in order
    parses,      \* number of completed parse_components() calls
    err          \* the exception that ended the run, "" when none

vars == <<params, pc, components, canvas, k, stack, dwg, created, parses, err>>

----------------------------------------------------------------------------
(* Bounds and program constants *)

\* Depth at which the interpreter's recursion limit ends a run (draw frames).
MaxDepth == 4

\* Units per 1.0: round(x, 7) keeps 7 decimals.
Scale == 10000000

\* Limb base used to multiply two Scale-sized integers without overflow:
\* Limb * Limb = 10 * Scale.
Limb == Scale \div 1000

\* Python's None (yaml null).
None == "None"

----------------------------------------------------------------------------
(* random.choice *)

\* random_choice(options): the set of values the call may return; empty when
\* the list is empty, in which case random.choice raises IndexError.
random_choice(options) == {options[i] : i \in 1..Len(options)}

----------------------------------------------------------------------------
(* Exact arithmetic for _rotate *)

Abs(x) == IF x < 0 THEN -x ELSE x

\* x * c for 0 <= x, c as the pair <<hi, lo>> with x * c = hi * Scale + lo.
MulNat(x, c) ==
    LET xh == x \div Limb
        xl == x % Limb
        ch == c \div Limb
        cl == c % Limb
        w  == Scale \div Limb
        A  == xh * ch                 \* weight Limb * Limb
        B  == xh * cl + xl * ch       \* weight Limb
        C  == xl * cl                 \* weight 1
        low == (B % w) * Limb + C
    IN  <<A * ((Limb * Limb) \div Scale) + (B \div w) + (low \div Scale),
          low % Scale>>

\* -(hi * Scale + lo) in the same representation (0 <= lo < Scale).
NegPair(p) == IF p[2] = 0 THEN <<-p[1], 0>> ELSE <<-p[1] - 1, Scale - p[2]>>

\* Signed product x * c as a pair.
MulPair(x, c) ==
    IF (x < 0) = (c < 0) THEN MulNat(Abs(x), Abs(c))
    ELSE NegPair(MulNat(Abs(x), Abs(c)))

AddPair(p, q) ==
    LET lo == p[2] + q[2]
    IN  <<p[1] + q[1] + (lo \div Scale), lo % Scale>>

\* round(v / Scale) to the nearest integer, ties to even, as Python's round.
RoundPair(p) ==
    IF p[2] * 2 > Scale THEN p[1] + 1
    ELSE IF p[2] * 2 < Scale THEN p[1]
    ELSE IF p[1] % 2 = 0 THEN p[1] ELSE p[1] + 1

\* math.cos and math.sin of 360/n degrees, in units of 1/Scale.
CosTable(n) == CASE n = 3 -> -5000000 [] n = 4 -> 0
SinTable(n) == CASE n = 3 -> 8660254 [] n = 4 -> Scale

\* _rotate(p, angle) with angle = (360/n) * (pi/180): cos(-angle) = cos(angle)
\* and sin(-angle) = -sin(angle).
rotate(p, n) ==
    LET c == CosTable(n)
        s == -SinTable(n)
    IN  << RoundPair(AddPair(MulPair(p[1], c), NegPair(MulPair(p[2], s)))),
           RoundPair(AddPair(MulPair(p[1], s), MulPair(p[2], c))) >>

\* The local points: the seed (0, size * 0.5) and one rotated point per
\* iteration of the loop, vertex_count iterations.
RECURSIVE LocalPoints(_, _, _)
LocalPoints(p, n, left) ==
    IF left = 0 THEN <<p>>
    ELSE <<p>> \o LocalPoints(rotate(p, n), n, left - 1)

----------------------------------------------------------------------------
(* parameters.yaml: the configurations explored *)

Style(fill, opacity, size, rotation) ==
    [fill_options |-> fill, opacity_options |-> opacity,
     size_options |-> size, rotation_options |-> rotation]

\* One entry of element_defs.  Circle, Rect and Ellipse entries carry no
\* variant keys; Polygon reads vertex_count and center_elements; PolygonGroup
\* reads vertex_count_options, vertex_elements and center_elements.
Leaf(type, id, style) ==
    [type |-> type, id |-> id, style |-> style, vertex_count |-> <<>>,
     vertex_count_options |-> <<>>, vertex_elements |-> <<>>,
     center_elements |-> <<>>]

PolygonDef(id, style, vertex_count, center_elements) ==
    [type |-> "Polygon", id |-> id, style |-> style,
     vertex_count |-> vertex_count, vertex_count_options |-> <<>>,
     vertex_elements |-> <<>>, center_elements |-> center_elements]

PolygonGroupDef(id, style, vertex_count_options, vertex_elements, center_elements) ==
    [type |-> "PolygonGroup", id |-> id, style |-> style,
     vertex_count |-> <<>>, vertex_count_options |-> vertex_count_options,
     vertex_elements |-> vertex_elements, center_elements |-> center_elements]

Params(canvas_size, component_to_draw, element_defs) ==
    [canvas_size |-> canvas_size, component_to_draw |-> component_to_draw,
     element_defs |-> element_defs]

\* Element definitions used by the configurations below.
DefCircle == Leaf("Circle", "circle", Style(<<"red", "blue">>, <<100>>, <<2>>, <<45>>))
DefRect   == Leaf("Rect", "rect", Style(<<"red">>, <<50, 100>>, <<2, 4>>, <<0, 90>>))
DefEll    == Leaf("Ellipse", "ell", Style(<<"gold">>, <<50>>, <<4>>, <<0, 45>>))
DefDot    == Leaf("Rect", "dot", Style(<<"black">>, <<100>>, <<2>>, <<0, 15>>))
DefTri    == PolygonDef("tri", Style(<<"green", "red">>, <<100>>, <<2>>, <<0, 30>>),
                        <<3>>, <<None>>)
DefPoly   == PolygonDef("poly", Style(<<"blue">>, <<100>>, <<2>>, <<0, 45>>),
                        <<3, 4>>, <<None, "ell">>)
DefNest   == PolygonDef("nest", Style(<<"grey">>, <<80>>, <<4>>, <<0, 10>>),
                        <<4>>, <<"poly">>)
DefPgc    == PolygonGroupDef("pgc", Style(<<"navy">>, <<100>>, <<4>>, <<0, 20>>),
                             <<3, 4>>, <<"circle">>, <<None, "dot">>)
DefPgp    == PolygonGroupDef("pgp", Style(<<"red", "blue">>, <<100>>, <<2, 4>>, <<0, 60>>),
                             <<3>>, <<"polygon", None>>, <<None, "ell">>)
DefSelf   == PolygonDef("self", Style(<<"red">>, <<100>>, <<2>>, <<0>>),
                        <<3>>, <<"self">>)
DefA      == PolygonDef("a", Style(<<"red">>, <<100>>, <<2>>, <<0>>), <<3>>, <<"b">>)
DefB      == PolygonDef("b", Style(<<"blue">>, <<100>>, <<2>>, <<45>>), <<4>>, <<"c">>)
DefC      == PolygonDef("c", Style(<<"gold">>, <<100>>, <<2>>, <<0>>), <<3>>, <<"a", None>>)
DefNoSize == Leaf("Circle", "nosize", Style(<<"red">>, <<100>>, <<>>, <<0>>))
DefNoFill == Leaf("Ellipse", "nofill", Style(<<>>, <<100>>, <<2>>, <<0>>))
DefNoRot  == Leaf("Rect", "norot", Style(<<"red">>, <<100>>, <<2>>, <<>>))
DefHost   == PolygonDef("host", Style(<<"red">>, <<100>>, <<4>>, <<0>>), <<4>>,
                        <<"nofill", "norot", "ghost">>)
DefNoVc   == PolygonDef("novc", Style(<<"red">>, <<100>>, <<2>>, <<0>>), <<>>, <<None>>)
DefLone   == PolygonGroupDef("lone", Style(<<"red">>, <<100>>, <<2>>, <<0>>),
                             <<3>>, <<"circle">>, <<None>>)

\* A mapping from the ids of a sequence of definitions to the definitions.
Defs(ds) ==
    [key \in {ds[j].id : j \in 1..Len(ds)} |->
        (CHOOSE d \in {ds[j] : j \in 1..Len(ds)} : d.id = key)]

\* canvas_size is a string; it is held as its sequence of characters.
Configs ==
    << Params(<<"8", "x", "6">>, <<"rect", "circle", "rect">>,
              Defs(<<DefCircle, DefRect>>)),
       Params(<<"5", "x", "4">>, <<"poly", "nest">>,
              Defs(<<DefPoly, DefNest, DefEll>>)),
       Params(<<"1", "0", "x", "1", "0">>, <<"pgc", "tri", "ell">>,
              Defs(<<DefTri, DefPgc, DefCircle, DefDot, DefEll>>)),
       Params(<<"8", "x", "8">>, <<"pgp">>,
              Defs(<<DefPgp, DefEll>>)),
       Params(<<"4", "x", "4">>, <<"self">>, Defs(<<DefSelf>>)),
       Params(<<"4", "x", "4">>, <<"a">>, Defs(<<DefA, DefB, DefC>>)),
       Params(<<"6", "x", "6">>, <<"dot", "nosize">>,
              Defs(<<DefDot, DefNoSize>>)),
       Params(<<"6", "x", "6">>, <<"dot", "host">>,
              Defs(<<DefDot, DefHost, DefNoFill, DefNoRot>>)),
       Params(<<"6", "x", "6">>, <<"dot">>, Defs(<<DefDot, DefNoVc>>)),
       Params(<<"6", "x", "6">>, <<"dot", "lone">>,
              Defs(<<DefDot, DefLone>>)),
       Params(<<"6", "x", "6">>, <<"dot", "gone">>, Defs(<<DefDot>>)),
       Params(<<"6", "6">>, <<"dot">>, Defs(<<DefDot>>)) >>

----------------------------------------------------------------------------
(* Polygon vertices *)

\* The sizes and vertex counts the configurations can pass to a draw.
SizeOptions ==
    UNION {UNION {random_choice(Configs[c].element_defs[key].style.size_options) :
                    key \in DOMAIN Configs[c].element_defs} : c \in 1..Len(Configs)}
VertexCounts == {3, 4}

\* The loop of lines 97-102 for every size and vertex count, computed once.
LocalPointsOf ==
    [size \in SizeOptions, n \in VertexCounts |->
        LocalPoints(<<0, (size * Scale) \div 2>>, n, n)]

\* points_list of Polygon.draw, PolygonGroup.draw and draw_child_polygon:
\* the local points translated by the center.
points_list(center, size, vertex_count) ==
    LET loc == LocalPointsOf[size, vertex_count]
    IN  [j \in 1..Len(loc) |-> <<loc[j][1] + center[1], loc[j][2] + center[2]>>]

----------------------------------------------------------------------------
(* parse_canvas_size *)

Digits == {"0", "1", "2", "3", "4", "5", "6", "7", "8", "9"}

DigitVal(c) ==
    CASE c = "0" -> 0 [] c = "1" -> 1 [] c = "2" -> 2 [] c = "3" -> 3
      [] c = "4" -> 4 [] c = "5" -> 5 [] c = "6" -> 6 [] c = "7" -> 7
      [] c = "8" -> 8 [] c = "9" -> 9

\* int(s) for a string of decimal digits.
RECURSIVE int(_)
int(s) ==
    IF s = <<>> THEN 0
    ELSE int(SubSeq(s, 1, Len(s) - 1)) * 10 + DigitVal(s[Len(s)])

IsInt(s) == s # <<>> /\ \A j \in 1..Len(s) : s[j] \in Digits

\* width, height = size_str.split("x"); return int(width), int(height).
\* The unpacking needs exactly two parts and int() needs digits: anything
\* else raises ValueError.
parse_canvas_size(size_str) ==
    LET xs == {j \in 1..Len(size_str) : size_str[j] = "x"}
    IN  IF Cardinality(xs) # 1 THEN [err |-> "ValueError", value |-> <<0, 0>>]
        ELSE LET x == CHOOSE j \in xs : TRUE
                 width  == SubSeq(size_str, 1, x - 1)
                 height == SubSeq(size_str, x + 1, Len(size_str))
             IN  IF IsInt(width) /\ IsInt(height)
                 THEN [err |-> "", value |-> <<int(width), int(height)>>]
                 ELSE [err |-> "ValueError", value |-> <<0, 0>>]

----------------------------------------------------------------------------
(* Component model *)

\* A component instance.  Circle, Rect and Ellipse have no vertex_count,
\* vertex_elements or center_element attribute; the fields are then unused.
Component(type, id, style, vertex_count, vertex_elements, center_element) ==
    [type |-> type, id |-> id, style |-> style, vertex_count |-> vertex_count,
     vertex_elements |-> vertex_elements, center_element |-> center_element]

\* create_component returns None for an unknown type.
NoneComponent == Component("NoneType", None, <<>>, 0, None, None)

\* Polygon.__init__: the instances the constructor may build.
Polygon_init(id, style, vertex_count, center_elements) ==
    { Component("Polygon", id, style, vc, None, ce) :
        vc \in random_choice(vertex_count), ce \in random_choice(center_elements) }

\* PolygonGroup.__init__: the instances the constructor may build.
PolygonGroup_init(id, style, vertex_count, vertex_elements, center_elements) ==
    UNION { { Component("PolygonGroup", id, style, vc, ve, ce) :
                vc \in random_choice(vertex_count),
                ce \in random_choice(center_elements) } :
            ve \in random_choice(vertex_elements) }

\* create_component(params): the set of instances it may return; empty
\* when a constructor's random.choice raises IndexError.
create_component(p) ==
    CASE p.type = "Circle"  -> {Component("Circle", p.id, p.style, 0, None, None)}
      [] p.type = "Rect"    -> {Component("Rect", p.id, p.style, 0, None, None)}
      [] p.type = "Ellipse" -> {Component("Ellipse", p.id, p.style, 0, None, None)}
      [] p.type = "Polygon" ->
            Polygon_init(p.id, p.style, p.vertex_count, p.center_elements)
      [] p.type = "PolygonGroup" ->
            PolygonGroup_init(p.id, p.style, p.vertex_count_options,
                              p.vertex_elements, p.center_elements)
      [] OTHER -> {NoneComponent}

\* parse_components(): the registries one call may build from the
\* configuration; empty when building some entry raises IndexError.
parse_components(prm) ==
    LET defs == prm.element_defs
        all  == UNION {create_component(defs[key]) : key \in DOMAIN defs}
    IN  { reg \in [DOMAIN defs -> all] :
            \A key \in DOMAIN defs : reg[key] \in create_component(defs[key]) }

----------------------------------------------------------------------------
(* Drawable nodes *)

\* A node of the scene graph.  kind, center, r, insert, size, points, fill,
\* opacity, transform and elements are the attributes of the svgwrite
\* element ((), when the element has no such attribute).  The other fields
\* record where the node comes from: id and inst are the id and the
\* construction-time choices of the component whose method made it, by is
\* that method, args the (center, size, rotation) the method was called
\* with, and seq the node's position in the order of dwg.* factory calls
\* (0 for a group).
Node(kind, center, r, insert, size, points, fill, opacity, transform, elements, self, by, args, seq) ==
    [kind |-> kind, center |-> center, r |-> r, insert |-> insert,
     size |-> size, points |-> points, fill |-> fill, opacity |-> opacity,
     transform |-> transform, elements |-> elements,
     id |-> self.id,
     inst |-> <<self.vertex_count, self.vertex_elements, self.center_element>>,
     by |-> by, args |-> args, seq |-> seq]

\* A local variable that holds no node yet.
NoNode ==
    Node("none", <<>>, <<>>, <<>>, <<>>, <<>>, "", 0, <<>>, <<>>,
         NoneComponent, "", <<>>, 0)

Args(center, size, rotation) == <<center, size, rotation>>

\* element.rotate(rotation, center), applied when rotation != 0.
Rotated(rotation, center) ==
    IF rotation # 0 THEN <<rotation, center>> ELSE <<>>

\* Circle.draw: the circle it returns, given its two random choices.
Circle_draw(self, center, size, rotation, fill, opacity, seq) ==
    Node("circle", center, (size * Scale) \div 2, <<>>, <<>>, <<>>,
         fill, opacity, <<>>, <<>>,
         self, "Circle.draw", Args(center, size, rotation), seq)

\* Rect.draw.
Rect_draw(self, center, size, rotation, fill, opacity, seq) ==
    Node("rect", <<>>, <<>>,
         <<center[1] - (size * Scale) \div 2, center[2] - (size * Scale) \div 2>>,
         <<size * Scale, size * Scale>>, <<>>,
         fill, opacity, Rotated(rotation, center), <<>>,
         self, "Rect.draw", Args(center, size, rotation), seq)

\* Ellipse.draw.
Ellipse_draw(self, center, size, rotation, fill, opacity, seq) ==
    Node("ellipse", center, <<(size * Scale) \div 2, (size * Scale) \div 4>>,
         <<>>, <<>>, <<>>,
         fill, opacity, Rotated(rotation, center), <<>>,
         self, "Ellipse.draw", Args(center, size, rotation), seq)

\* Polygon.draw, up to the test of center_element: the polygon primitive.
Polygon_polygon(self, center, size, rotation, fill, opacity, seq) ==
    Node("polygon", <<>>, <<>>, <<>>, <<>>,
         points_list(center, size, self.vertex_count),
         fill, opacity, Rotated(rotation, center), <<>>,
         self, "Polygon.draw", Args(center, size, rotation), seq)

\* PolygonGroup.draw with the rotate call of Polygon.draw copied into it.
PolygonGroup_polygon_rotated(self, center, size, rotation, fill, opacity, seq) ==
    Node("polygon", <<>>, <<>>, <<>>, <<>>,
         points_list(center, size, self.vertex_count),
         fill, opacity, Rotated(rotation, center), <<>>,
         self, "PolygonGroup.draw", Args(center, size, rotation), seq)

\* PolygonGroup.draw: the outer polygon; no rotate call follows it.
PolygonGroup_polygon(self, center, size, rotation, fill, opacity, seq) ==
    Node("polygon", <<>>, <<>>, <<>>, <<>>,
         points_list(center, size, self.vertex_count),
         fill, opacity, <<>>, <<>>,
         self, "PolygonGroup.draw", Args(center, size, rotation), seq)

\* draw_child_polygon without its rotate call.
draw_child_polygon_unrotated(self, center, size, rotation, fill, opacity, seq) ==
    Node("polygon", <<>>, <<>>, <<>>, <<>>,
         points_list(center, size, self.vertex_count),
         fill, opacity, <<>>, <<>>,
         self, "draw_child_polygon", Args(center, size, rotation), seq)

\* PolygonGroup.draw_child_polygon.
draw_child_polygon(self, center, size, rotation, fill, opacity, seq) ==
    Node("polygon", <<>>, <<>>, <<>>, <<>>,
         points_list(center, size, self.vertex_count),
         fill, opacity, Rotated(rotation, center), <<>>,
         self, "draw_child_polygon", Args(center, size, rotation), seq)

\* An add that puts the element first.
group_add_first(elements, element) == <<element>> \o elements

\* group_components.add(element): the element joins the group's elements last.
group_add(elements, element) == Append(elements, element)

\* Group() followed by group_components.add(...) for each element.
Group(self, by, args, elements) ==
    Node("g", <<>>, <<>>, <<>>, <<>>, <<>>, "", 0, <<>>, elements,
         self, by, args, 0)

\* Polygon.draw adding the center component before the polygon.
Polygon_group_swapped(self, args, polygon, center_component) ==
    Group(self, "Polygon.draw", args,
          group_add(group_add(<<>>, center_component), polygon))

\* The group Polygon.draw returns when center_element is set.
Polygon_group(self, args, polygon, center_component) ==
    Group(self, "Polygon.draw", args,
          group_add(group_add(<<>>, polygon), center_component))

----------------------------------------------------------------------------
(* The call stack *)

\* The frame of a draw method: its arguments and local variables.  pc is
\* "body" before the method has run, and the place to resume at while a
\* nested draw_component call is running or has just returned into ret.
Frame(self, center, size, rotation) ==
    [self |-> self, center |-> center, size |-> size, rotation |-> rotation,
     pc |-> "body", points_list |-> <<>>, polygon |-> NoNode,
     group_components |-> <<>>, i |-> 0, ret |-> NoNode]

NoFrame == Frame(NoneComponent, <<>>, 0, 0)

Top == stack[Len(stack)]

Running(type, at) ==
    /\ pc = "loop"
    /\ stack # <<>>
    /\ Top.self.type = type
    /\ Top.pc = at

\* The stack with its innermost frame replaced by f.
WithTop(f) == [stack EXCEPT ![Len(stack)] = f]

\* A center draw that passes the component's own id.
CenterTarget_own(self) == IF self.center_element = None THEN None ELSE self.id

\* The component id a Polygon or PolygonGroup draws at its center.
CenterTarget(self) == self.center_element

\* The component id PolygonGroup.draw draws at a vertex: the literal "circle".
VertexTarget(self) == "circle"

\* The vertex that hosts the i-th child (i counts from 0, as range does).
VertexPoint(points, i) == points[i + 1]

\* A loop over every entry of points_list, the closing point included.
VertexRange_closed(self) == self.vertex_count + 1

\* The number of per-vertex children: range(self.vertex_count).
VertexRange(self) == self.vertex_count

\* draw_component(dwg, center, center_element): it re-parses the
\* configuration, rebuilds the registry, looks the component up and picks a
\* size and a rotation, then calls component.draw.  The set of outcomes: a
\* frame for the call of component.draw, or the exception raised before it.
draw_component(center, center_element) ==
    LET regs == parse_components(params)
        fail(e) == [err |-> e, frame |-> NoFrame]
    IN  IF regs = {} THEN {fail("IndexError")}
        ELSE UNION {
            IF center_element \notin DOMAIN reg THEN {fail("KeyError")}
            ELSE LET component == reg[center_element]
                 IN  IF \/ component.style.size_options = <<>>
                        \/ component.style.rotation_options = <<>>
                     THEN {fail("IndexError")}
                     ELSE { [err |-> "",
                             frame |-> Frame(component, center, size_option,
                                             rotation_option)] :
                            size_option \in random_choice(component.style.size_options),
                            rotation_option \in
                                random_choice(component.style.rotation_options) }
            : reg \in regs }

\* The exception e ends the run; base is the call stack at that moment.
Raise(e, base) ==
    /\ pc' = "error"
    /\ err' = e
    /\ stack' = base

\* A frame calls draw_component; base is the stack with the caller's frame
\* already updated.  The interpreter's recursion limit ends the run when the
\* stack is MaxDepth frames deep.
Call(base, center, center_element) ==
    IF Len(base) >= MaxDepth
    THEN Raise("RecursionError", base) /\ UNCHANGED parses
    ELSE \E o \in draw_component(center, center_element) :
            /\ parses' = IF parse_components(params) = {} THEN parses ELSE parses + 1
            /\ IF o.err = ""
               THEN stack' = Append(base, o.frame) /\ UNCHANGED <<pc, err>>
               ELSE Raise(o.err, base)

\* The innermost draw method returns node res: to main, which adds it to the
\* drawing and moves to the next id, or into the calling frame's ret.
Return(res) ==
    IF Len(stack) = 1
    THEN /\ stack' = <<>>
         /\ dwg' = Append(dwg, res)
         /\ k' = k + 1
    ELSE /\ stack' = [SubSeq(stack, 1, Len(stack) - 1)
                        EXCEPT ![Len(stack) - 1].ret = res]
         /\ UNCHANGED <<dwg, k>>

----------------------------------------------------------------------------
Init ==
    /\ params \in {Configs[c] : c \in 1..Len(Configs)}
    /\ pc = "start"
    /\ components = <<>>
    /\ canvas = <<0, 0>>
    /\ k = 1
    /\ stack = <<>>
    /\ dwg = <<>>
    /\ created = <<>>
    /\ parses = 0
    /\ err = ""

\* main(), lines 218-223: parse the configuration, build the registry and
\* parse the canvas size.
MainParse ==
    /\ pc = "start"
    /\ LET regs == parse_components(params)
           size == parse_canvas_size(params.canvas_size)
       IN  IF regs = {}
           THEN Raise("IndexError", stack) /\ UNCHANGED <<components, canvas, parses>>
           ELSE \E reg \in regs :
                  /\ components' = reg
                  /\ parses' = parses + 1
                  /\ IF size.err # ""
                     THEN Raise(size.err, stack) /\ UNCHANGED canvas
                     ELSE /\ canvas' = size.value
                          /\ pc' = "loop"
                          /\ UNCHANGED <<stack, err>>
    /\ UNCHANGED <<params, k, dwg, created>>

\* A center without the division by 2: the canvas corner.
center_option_corner(cv) == <<cv[1] * Scale, cv[2] * Scale>>

\* The center main passes to every top-level draw.
center_option(cv) == <<(cv[1] * Scale) \div 2, (cv[2] * Scale) \div 2>>

\* main(), lines 226-233: the next requested id is looked up in main's
\* registry and its draw method is called.
MainDraw ==
    /\ pc = "loop"
    /\ stack = <<>>
    /\ k <= Len(params.component_to_draw)
    /\ LET component_id == params.component_to_draw[k]
       IN  IF component_id \notin DOMAIN components
           THEN Raise("KeyError", stack)
           ELSE LET component == components[component_id]
                IN  IF \/ component.style.size_options = <<>>
                       \/ component.style.rotation_options = <<>>
                    THEN Raise("IndexError", stack)
                    ELSE \E size_option \in random_choice(component.style.size_options),
                            rotation_option \in
                                random_choice(component.style.rotation_options) :
                           /\ stack' = <<Frame(component, center_option(canvas),
                                               size_option, rotation_option)>>
                           /\ UNCHANGED <<pc, err>>
    /\ UNCHANGED <<params, components, canvas, k, dwg, created, parses>>

\* main(), line 237: every id is drawn, the drawing is saved.
MainSave ==
    /\ pc = "loop"
    /\ stack = <<>>
    /\ k > Len(params.component_to_draw)
    /\ pc' = "done"
    /\ UNCHANGED <<params, components, canvas, k, stack, dwg, created, parses, err>>

\* Circle.draw, Rect.draw or Ellipse.draw runs: fill and opacity are chosen,
\* the primitive is made and returned.
LeafDraw(type) ==
    /\ Running(type, "body")
    /\ LET f == Top
       IN  IF f.self.style.fill_options = <<>> \/ f.self.style.opacity_options = <<>>
           THEN Raise("IndexError", stack) /\ UNCHANGED <<dwg, k, created>>
           ELSE \E fill \in random_choice(f.self.style.fill_options),
                   opacity \in random_choice(f.self.style.opacity_options) :
                  LET seq == Len(created) + 1
                      res == CASE type = "Circle" ->
                                    Circle_draw(f.self, f.center, f.size, f.rotation,
                                                fill, opacity, seq)
                               [] type = "Rect" ->
                                    Rect_draw(f.self, f.center, f.size, f.rotation,
                                              fill, opacity, seq)
                               [] type = "Ellipse" ->
                                    Ellipse_draw(f.self, f.center, f.size, f.rotation,
                                                 fill, opacity, seq)
                  IN  /\ created' = Append(created, res)
                      /\ Return(res)
                      /\ UNCHANGED <<pc, err>>
    /\ UNCHANGED <<params, components, canvas, parses>>

CircleDraw == LeafDraw("Circle")
RectDraw == LeafDraw("Rect")
EllipseDraw == LeafDraw("Ellipse")

\* Polygon.draw, lines 96-115: the polygon is made; without a center element
\* it is returned, otherwise draw_component is called for the center.
PolygonDraw ==
    /\ Running("Polygon", "body")
    /\ LET f == Top
       IN  IF f.self.style.fill_options = <<>> \/ f.self.style.opacity_options = <<>>
           THEN Raise("IndexError", stack) /\ UNCHANGED <<dwg, k, created, parses>>
           ELSE \E fill \in random_choice(f.self.style.fill_options),
                   opacity \in random_choice(f.self.style.opacity_options) :
                  LET polygon == Polygon_polygon(f.self, f.center, f.size, f.rotation,
                                                 fill, opacity, Len(created) + 1)
                  IN  /\ created' = Append(created, polygon)
                      /\ IF CenterTarget(f.self) = None
                         THEN Return(polygon) /\ UNCHANGED <<pc, err, parses>>
                         ELSE /\ Call(WithTop([f EXCEPT !.pc = "center",
                                                 !.points_list = polygon.points,
                                                 !.polygon = polygon]),
                                      f.center, CenterTarget(f.self))
                              /\ UNCHANGED <<dwg, k>>
    /\ UNCHANGED <<params, components, canvas>>

\* Polygon.draw, lines 116-119: the center component has been drawn; the
\* group of the polygon and the center component is returned.
PolygonAfterCenter ==
    /\ Running("Polygon", "center")
    /\ LET f == Top
       IN  Return(Polygon_group(f.self, Args(f.center, f.size, f.rotation),
                                f.polygon, f.ret))
    /\ UNCHANGED <<params, pc, components, canvas, created, parses, err>>

\* PolygonGroup.draw, lines 135-154: the outer polygon is made and added to
\* the group; with a center element draw_component is called for it.
PolygonGroupDraw ==
    /\ Running("PolygonGroup", "body")
    /\ LET f == Top
       IN  IF f.self.style.fill_options = <<>> \/ f.self.style.opacity_options = <<>>
           THEN Raise("IndexError", stack) /\ UNCHANGED <<created, parses>>
           ELSE \E fill \in random_choice(f.self.style.fill_options),
                   opacity \in random_choice(f.self.style.opacity_options) :
                  LET polygon == PolygonGroup_polygon(f.self, f.center, f.size,
                                     f.rotation, fill, opacity, Len(created) + 1)
                      g == [f EXCEPT !.points_list = polygon.points,
                                     !.polygon = polygon,
                                     !.group_components = group_add(<<>>, polygon)]
                  IN  /\ created' = Append(created, polygon)
                      /\ IF CenterTarget(f.self) # None
                         THEN Call(WithTop([g EXCEPT !.pc = "center"]),
                                   f.center, CenterTarget(f.self))
                         ELSE /\ stack' = WithTop([g EXCEPT !.pc = "vertices"])
                              /\ UNCHANGED <<pc, err, parses>>
    /\ UNCHANGED <<params, components, canvas, k, dwg>>

\* PolygonGroup.draw, line 155: the center component joins the group.
PolygonGroupAfterCenter ==
    /\ Running("PolygonGroup", "center")
    /\ LET f == Top
       IN  stack' = WithTop([f EXCEPT
                               !.group_components = group_add(@, f.ret),
                               !.pc = "vertices"])
    /\ UNCHANGED <<params, pc, components, canvas, k, dwg, created, parses, err>>

\* PolygonGroup.draw, lines 157-166: one step of the match statement.  For
\* "circle" the next vertex's circle is drawn by draw_component; for
\* "polygon" the next child polygon is made and added; when the loop is
\* over, or for any other value, the group is returned.
PolygonGroupVertices ==
    /\ Running("PolygonGroup", "vertices")
    /\ LET f == Top
           more == f.i < VertexRange(f.self)
       IN  IF f.self.vertex_elements = "circle" /\ more
           THEN /\ Call(WithTop([f EXCEPT !.pc = "vertex"]),
                        VertexPoint(f.points_list, f.i), VertexTarget(f.self))
                /\ UNCHANGED <<dwg, k, created>>
           ELSE IF f.self.vertex_elements = "polygon" /\ more
           THEN IF f.self.style.fill_options = <<>> \/ f.self.style.opacity_options = <<>>
                THEN Raise("IndexError", stack) /\ UNCHANGED <<dwg, k, created, parses>>
                ELSE \E fill \in random_choice(f.self.style.fill_options),
                        opacity \in random_choice(f.self.style.opacity_options) :
                       LET child_component ==
                               draw_child_polygon(f.self, VertexPoint(f.points_list, f.i),
                                   f.size, f.rotation, fill, opacity, Len(created) + 1)
                       IN  /\ created' = Append(created, child_component)
                           /\ stack' = WithTop([f EXCEPT
                                  !.group_components = group_add(@, child_component),
                                  !.i = @ + 1])
                           /\ UNCHANGED <<pc, err, dwg, k, parses>>
           ELSE /\ Return(Group(f.self, "PolygonGroup.draw",
                                Args(f.center, f.size, f.rotation), f.group_components))
                /\ UNCHANGED <<pc, err, created, parses>>
    /\ UNCHANGED <<params, components, canvas>>

\* PolygonGroup.draw, line 161: the circle drawn at a vertex joins the group
\* and the loop moves to the next vertex.
PolygonGroupAfterVertex ==
    /\ Running("PolygonGroup", "vertex")
    /\ LET f == Top
       IN  stack' = WithTop([f EXCEPT
                               !.group_components = group_add(@, f.ret),
                               !.i = @ + 1,
                               !.pc = "vertices"])
    /\ UNCHANGED <<params, pc, components, canvas, k, dwg, created, parses, err>>

Next ==
    \/ MainParse
    \/ MainDraw
    \/ MainSave
    \/ CircleDraw
    \/ RectDraw
    \/ EllipseDraw
    \/ PolygonDraw
    \/ PolygonAfterCenter
    \/ PolygonGroupDraw
    \/ PolygonGroupAfterCenter
    \/ PolygonGroupVertices
    \/ PolygonGroupAfterVertex

Spec == Init /\ [][Next]_vars

\* The interpreter runs the program to its end: some step is taken whenever
\* one is possible.
FairSpec == Spec /\ WF_vars(Next)

----------------------------------------------------------------------------
(* Vocabulary of the properties *)

Frames == {stack[j] : j \in 1..Len(stack)}

\* A node and every node below it.
RECURSIVE Sub(_)
Sub(n) == {n} \cup UNION {Sub(n.elements[j]) : j \in 1..Len(n.elements)}

\* The primitives of a node, and the first and last of them in creation order.
Prims(n) == {m \in Sub(n) : m.kind # "g"}
MinSeq(n) == CHOOSE a \in {m.seq : m \in Prims(n)} : \A m \in Prims(n) : a <= m.seq
MaxSeq(n) == CHOOSE a \in {m.seq : m \in Prims(n)} : \A m \in Prims(n) : a >= m.seq

\* Every node a draw method has returned so far, at any nesting level.
Roots ==
    {dwg[j] : j \in 1..Len(dwg)}
      \cup {f.ret : f \in {g \in Frames : g.ret.kind # "none"}}
      \cup UNION {{f.group_components[j] : j \in 1..Len(f.group_components)} : f \in Frames}
AllNodes == UNION {Sub(r) : r \in Roots}

\* The groups returned by PolygonGroup.draw and by Polygon.draw.
PolygonGroupResults == {n \in AllNodes : n.kind = "g" /\ n.by = "PolygonGroup.draw"}
PolygonResults == {n \in AllNodes : n.kind = "g" /\ n.by = "Polygon.draw"}

\* The values a draw method returned: the drawing's elements, the values
\* returned into a frame, and every element of a group but its own polygon.
Returned ==
    {dwg[j] : j \in 1..Len(dwg)}
      \cup {f.ret : f \in {g \in Frames : g.ret.kind # "none"}}
      \cup UNION {{g.elements[j] : j \in 2..Len(g.elements)} :
                    g \in {n \in AllNodes : n.kind = "g"}}

\* The reference graph of a configuration: an id refers to the ids listed in
\* its center_elements and to "circle" when its vertex_elements may be
\* "circle".
Refs(d) ==
    ({d.center_elements[j] : j \in 1..Len(d.center_elements)} \ {None})
      \cup (IF "circle" \in {d.vertex_elements[j] : j \in 1..Len(d.vertex_elements)}
            THEN {"circle"} ELSE {})
Edges(prm) ==
    UNION {{<<a, b>> : b \in Refs(prm.element_defs[a])} : a \in DOMAIN prm.element_defs}
Compose(R, S) ==
    UNION {{<<x[1], y[2]>> : y \in {z \in S : z[1] = x[2]}} : x \in R}
RECURSIVE Paths(_, _)
Paths(R, n) == IF n = 0 THEN R ELSE Paths(R, n - 1) \cup Compose(Paths(R, n - 1), R)
Acyclic(prm) ==
    \A a \in DOMAIN prm.element_defs :
        <<a, a>> \notin Paths(Edges(prm), Cardinality(DOMAIN prm.element_defs))

\* Some component is being drawn inside its own draw.
SelfNested == \E j1, j2 \in 1..Len(stack) : j1 < j2 /\ stack[j1].self.id = stack[j2].self.id

----------------------------------------------------------------------------
(* C1 *)

----------------------------------------------------------------------------
(* C2 *)

\* C2: when a component is drawn inside its own draw and the run ends in an
\* error, the error is the reported CyclicReferenceError (the recursion is
\* not left to exhaust the call stack).
C2_CycleReported ==
    (pc = "error" /\ SelfNested) => err = "CyclicReferenceError"

----------------------------------------------------------------------------
(* C3 *)

\* C3: all primitives made for one component id in a run carry the same
\* construction-time vertex_count, vertex_elements and center_element.
C3_SameConstructionChoices ==
    \A j1, j2 \in 1..Len(created) :
        created[j1].id = created[j2].id => created[j1].inst = created[j2].inst

----------------------------------------------------------------------------
(* C4 *)

\* C4: a primitive made by Rect.draw, Ellipse.draw or Polygon.draw carries
\* the transform rotate(rotation, center) exactly when the rotation passed to
\* the draw is not 0; a circle and the outer polygon of PolygonGroup.draw
\* never carry a transform.
C4_RotationTransform ==
    \A j \in 1..Len(created) :
        LET p == created[j]
        IN  /\ p.by \in {"Rect.draw", "Ellipse.draw", "Polygon.draw"} =>
                 /\ (p.transform # <<>>) <=> (p.args[3] # 0)
                 /\ p.transform # <<>> => p.transform = <<p.args[3], p.args[1]>>
            /\ p.by \in {"Circle.draw", "PolygonGroup.draw"} => p.transform = <<>>

\* C4 witness: a rectangle, an ellipse and a polygon were drawn with a
\* nonzero rotation, as were a circle and a polygon group's outer polygon.
C4_Witness ==
    \A by \in {"Rect.draw", "Ellipse.draw", "Polygon.draw", "Circle.draw",
               "PolygonGroup.draw"} :
        \E j \in 1..Len(created) : created[j].by = by /\ created[j].args[3] # 0

----------------------------------------------------------------------------
(* C5 *)

\* C5: in a group returned by PolygonGroup.draw the outer polygon is first;
\* a set center element is second, drawn at the group's center, and all its
\* primitives are made before those of any per-vertex child; the per-vertex
\* children follow in vertex order, vertex_count of them for "circle" and
\* "polygon" and none for any other vertex_elements.
C5_GroupOrder ==
    \A g \in PolygonGroupResults :
        LET vc  == g.inst[1]
            ve  == g.inst[2]
            ce  == g.inst[3]
            off == IF ce # None THEN 2 ELSE 1
            n   == IF ve \in {"circle", "polygon"} THEN vc ELSE 0
            e   == g.elements
        IN  /\ Len(e) = off + n
            /\ e[1].kind = "polygon" /\ e[1].by = "PolygonGroup.draw"
            /\ e[1].seq = MinSeq(g)
            /\ ce # None =>
                 /\ e[2].id = ce
                 /\ e[2].args[1] = g.args[1]
                 /\ e[1].seq < MinSeq(e[2])
                 /\ \A j \in 1..n : MaxSeq(e[2]) < MinSeq(e[off + j])
            /\ \A j \in 1..n :
                 /\ e[off + j].args[1] = e[1].points[j]
                 /\ j > 1 => MaxSeq(e[off + j - 1]) < MinSeq(e[off + j])

\* C5 witness: a returned group with a center element and a circle at each
\* of its four vertices.
C5_Witness ==
    \E g \in PolygonGroupResults :
        g.inst[3] # None /\ g.inst[2] = "circle" /\ g.inst[1] = 4 /\ Len(g.elements) = 6

----------------------------------------------------------------------------
(* C6 *)

\* C6: a group returned by PolygonGroup.draw with vertex_elements "circle"
\* and no center element, the registry's "circle" being a Circle, has an
\* outer polygon of vertex_count + 1 points followed by exactly vertex_count
\* circles, the j-th centered at the j-th point; the closing point, which
\* repeats the first to within the rounding unit, hosts none.
C6_CirclePerVertex ==
    \A g \in PolygonGroupResults :
        (/\ g.inst[2] = "circle"
         /\ g.inst[3] = None
         /\ "circle" \in DOMAIN params.element_defs
         /\ params.element_defs["circle"].type = "Circle") =>
            LET vc == g.inst[1]
                e  == g.elements
            IN  /\ Len(e[1].points) = vc + 1
                /\ Abs(e[1].points[vc + 1][1] - e[1].points[1][1]) <= 1
                /\ Abs(e[1].points[vc + 1][2] - e[1].points[1][2]) <= 1
                /\ Len(e) = vc + 1
                /\ Cardinality(Prims(g)) = vc + 1
                /\ e[1].kind = "polygon"
                /\ \A j \in 1..vc :
                     /\ e[j + 1].kind = "circle"
                     /\ e[j + 1].center = e[1].points[j]

\* C6 witness: such a group with four vertices has been returned.
C6_Witness ==
    \E g \in PolygonGroupResults :
        /\ g.inst = <<4, "circle", None>>
        /\ params.element_defs["circle"].type = "Circle"
        /\ Len(g.elements) = 5

----------------------------------------------------------------------------
(* C7 *)

\* C7: the drawing's k-th element is the result of drawing the k-th
\* requested id, drawn at the canvas center with a size and a rotation of
\* that component's own options; after a run in which all ids resolve the
\* drawing has one element per requested id.
C7_SceneInRequestOrder ==
    /\ Len(dwg) <= Len(params.component_to_draw)
    /\ pc \in {"loop", "done"} => Len(dwg) = k - 1
    /\ pc = "done" => Len(dwg) = Len(params.component_to_draw)
    /\ stack # <<>> =>
         /\ stack[1].self.id = params.component_to_draw[k]
         /\ stack[1].center[1] * 2 = canvas[1] * Scale
         /\ stack[1].center[2] * 2 = canvas[2] * Scale
    /\ \A j \in 1..Len(dwg) :
         LET id == params.component_to_draw[j]
             style == params.element_defs[id].style
         IN  /\ dwg[j].id = id
             /\ dwg[j].args[1][1] * 2 = canvas[1] * Scale
             /\ dwg[j].args[1][2] * 2 = canvas[2] * Scale
             /\ dwg[j].args[2] \in random_choice(style.size_options)
             /\ dwg[j].args[3] \in random_choice(style.rotation_options)

\* C7 witness: a request that names the same id twice has been drawn: three
\* elements, the first and the third from the same component, differing in
\* their random choices.
C7_Witness ==
    /\ pc = "done"
    /\ Len(dwg) = 3
    /\ params.component_to_draw[1] = params.component_to_draw[3]
    /\ dwg[1].args # dwg[3].args
    /\ canvas = <<8, 6>>

----------------------------------------------------------------------------
(* C8 *)

\* C8: when the run fails on an empty option list, no primitive has been
\* made and nothing has been added to the drawing.
C8_FailsBeforeDrawing ==
    err = "IndexError" => (created = <<>> /\ dwg = <<>>)

----------------------------------------------------------------------------
(* C9 *)

\* The per-vertex children of a group returned by PolygonGroup.draw.
Children(g) ==
    LET off == IF g.inst[3] # None THEN 2 ELSE 1
    IN  {g.elements[j] : j \in (off + 1)..Len(g.elements)}

\* What C9 and its amendment share: every child polygon of a group with
\* vertex_elements "polygon" has the group's vertex count, the size and the
\* rotation passed to the group's draw, and is rotated about its own center
\* exactly when that rotation is not 0.
ChildGeometry(g, c) ==
    /\ c.kind = "polygon"
    /\ c.by = "draw_child_polygon"
    /\ Len(c.points) = g.inst[1] + 1
    /\ c.args[2] = g.args[2]
    /\ c.args[3] = g.args[3]
    /\ c.points[1] = <<c.args[1][1], c.args[1][2] + (g.args[2] * Scale) \div 2>>
    /\ (c.transform # <<>>) <=> (g.args[3] # 0)
    /\ c.transform # <<>> => c.transform = <<g.args[3], c.args[1]>>

\* C9 as claimed: moreover every child has the fill and the opacity that
\* were resolved for the group's outer polygon.
C9_ChildrenShareStyle ==
    \A g \in {h \in PolygonGroupResults : h.inst[2] = "polygon"} :
        /\ Len(g.elements) = g.inst[1] + (IF g.inst[3] # None THEN 2 ELSE 1)
        /\ \A c \in Children(g) :
             /\ ChildGeometry(g, c)
             /\ c.fill = g.elements[1].fill
             /\ c.opacity = g.elements[1].opacity

\* C9 amended: every child's fill and opacity are values of the group's own
\* fill_options and opacity_options (each child draws its own).
C9_ChildrenOwnStyle ==
    \A g \in {h \in PolygonGroupResults : h.inst[2] = "polygon"} :
        /\ Len(g.elements) = g.inst[1] + (IF g.inst[3] # None THEN 2 ELSE 1)
        /\ \A c \in Children(g) :
             /\ ChildGeometry(g, c)
             /\ c.fill \in random_choice(params.element_defs[g.id].style.fill_options)
             /\ c.opacity \in
                  random_choice(params.element_defs[g.id].style.opacity_options)

\* C9 witness: a returned group whose rotation is not 0 and whose three
\* child polygons do not all have the outer polygon's fill.
C9_Witness ==
    \E g \in {h \in PolygonGroupResults : h.inst[2] = "polygon"} :
        /\ g.args[3] # 0
        /\ Cardinality(Children(g)) = 3
        /\ \E c \in Children(g) : c.fill # g.elements[1].fill
        /\ \E c \in Children(g) : c.fill = g.elements[1].fill

----------------------------------------------------------------------------
(* C10 *)

\* C10: Polygon.draw returns the bare polygon when its center element is
\* None, and otherwise a group of two elements: its polygon, then the result
\* of drawing the center element at the same center with a size and a
\* rotation of the center element's own options.
C10_PolygonResult ==
    /\ \A n \in {m \in Returned : m.by = "Polygon.draw"} :
         (n.inst[3] = None) <=> (n.kind = "polygon")
    /\ \A g \in PolygonResults :
         LET ce == g.inst[3]
             style == params.element_defs[ce].style
         IN  /\ ce # None
             /\ Len(g.elements) = 2
             /\ g.elements[1].kind = "polygon"
             /\ g.elements[1].by = "Polygon.draw"
             /\ g.elements[1].id = g.id
             /\ g.elements[1].args = g.args
             /\ g.elements[2].id = ce
             /\ g.elements[2].args[1] = g.args[1]
             /\ g.elements[2].args[2] \in random_choice(style.size_options)
             /\ g.elements[2].args[3] \in random_choice(style.rotation_options)

\* C10 witness: a polygon has returned a group whose center element was
\* drawn with a size and a rotation that differ from the polygon's own, and
\* a polygon without center element has returned its bare polygon.
C10_Witness ==
    /\ \E g \in PolygonResults :
         /\ g.elements[2].args[2] # g.args[2]
         /\ g.elements[2].args[3] # g.args[3]
    /\ \E n \in Returned : n.by = "Polygon.draw" /\ n.kind = "polygon"

====
